---- MODULE Spec2Model ----
(***************************************************************************)
(* CalAge: diagnostic chambers (stations of channels), temperature         *)
(* chambers (racks) and batteries (units), as state machines over the      *)
(* three registries battery_obj_dict, diag_chamb_obj_dict and              *)
(* temp_chamb_obj_dict.                                                    *)
(*                                                                         *)
(* Python lists are sequences; list index i of the source is index i+1     *)
(* here.  A dict whose insertion order is observable (assignment_dict,     *)
(* the rows of a checklist) is a sequence of entries.  A raised exception  *)
(* is a record with raised = TRUE and the state as it was when the         *)
(* exception left the method.                                              *)
(***************************************************************************)
EXTENDS Integers, Sequences, FiniteSets, TLC

\* Longest batteries_to_test list handed to assign_channels.
MaxBatch == 2
\* Number of calls made on the registry in one run.
MaxCalls == 8
\* Latest value of datetime.today() (minutes since the first call).
MaxClock == 1
\* Longest interval_list, longest horizon, largest interval and largest
\* chamber capacity handed to determine_optimal_schedule, and the number of
\* scheduler runs in one behaviour.
MaxUnits == 2
MaxWeeks == 3
MaxInterval == 2
MaxCapacity == 2
MaxRuns == 1
MaxBuffer == 3

VARIABLES battery_obj_dict, diag_chamb_obj_dict, temp_chamb_obj_dict,
          csv_files, clock, calls, result

vars == <<battery_obj_dict, diag_chamb_obj_dict, temp_chamb_obj_dict,
          csv_files, clock, calls, result>>

\* diagnostic_start_time = "" of a chamber that was never started.
NoTime == -1

\* Python's None (an attribute that is present but unset).
None == "<None>"

Barcodes == {"A", "B"}
Stations == {"S1", "S2"}
Racks == {"T1", "T2"}

valid_form_factors == {"21700", "18650", "pouch", "prismatic"}

ChannelStates == {"unoccupied", "loaded", "running", "completed"}

\* The csv paths the callers use: the load checklist and the return checklist.
LoadCsv == "diagnostic_testing_verification.csv"
ReturnCsv == "chamber_return_verification.csv"

\* Lexicographic order of the strings a checklist is sorted by.
NameOrder == <<"", "A", "B", "C1", "C2", "D1", "S1", "S2", "T1", "T2", "Unassigned">>

NameRank(str) == CHOOSE i \in 1..Len(NameOrder) : NameOrder[i] = str

Range(seq) == {seq[i] : i \in 1..Len(seq)}

\* list.index(x): the first position of x, 0 when a ValueError is raised.
list_index(lst, x) ==
    IF \E i \in 1..Len(lst) : lst[i] = x
    THEN CHOOSE i \in 1..Len(lst) : lst[i] = x /\ \A j \in 1..(i - 1) : lst[j] # x
    ELSE 0

\* list.remove(x): the list without the first occurrence of x.
list_remove(lst, x) ==
    LET i == list_index(lst, x)
    IN  SubSeq(lst, 1, i - 1) \o SubSeq(lst, i + 1, Len(lst))

(***************************************************************************)
(* Battery                                                                 *)
(***************************************************************************)

\* The fields of the default templates, in template order.
default_data_file_template == <<"proj_name", "barcode", "seqnum", "diagnostic_number">>
default_procedure_file_template == <<"proj_name", "cell_type", "soc">>

\* Battery.__init__ with the default keyword arguments.
Battery(proj_name, barcode, seqnum, temperature, soc, diagnostic_frequency, cell_type, form_factor) ==
    [proj_name |-> proj_name, barcode |-> barcode, seqnum |-> seqnum,
     temperature |-> temperature, soc |-> soc,
     diagnostic_frequency |-> diagnostic_frequency, cell_type |-> cell_type,
     form_factor |-> form_factor, next_diag |-> "today",
     active_status |-> TRUE, under_diag |-> FALSE, diagnostic_number |-> 0,
     storage_location |-> "Unassigned", current_location |-> "Unassigned",
     data_file_history |-> <<>>, testing_procedure_history |-> <<>>,
     testing_start_dates |-> <<>>, test_file_in_progress |-> <<>>,
     data_file_template |-> default_data_file_template,
     procedure_file_template |-> default_procedure_file_template]

\* getattr(self, placeholder, None) is None: the attribute is missing or unset.
\* Only cell_type is stored as given; every other attribute went through
\* str(), int() or bool() in the constructor.
attr_is_none(battery, placeholder) ==
    \/ placeholder \notin DOMAIN battery
    \/ placeholder = "cell_type" /\ battery.cell_type = None

\* The file name a template yields: the values of its fields in order.
\* raised = TRUE is the ValueError for a field that is None.
fill_template(battery, template) ==
    IF \E i \in 1..Len(template) : attr_is_none(battery, template[i])
    THEN [raised |-> TRUE, value |-> <<>>]
    ELSE [raised |-> FALSE,
          value |-> [i \in 1..Len(template) |-> battery[template[i]]]]

generate_data_file(battery) == fill_template(battery, battery.data_file_template)

generate_procedure_file(battery) ==
    fill_template(battery, battery.procedure_file_template)

(***************************************************************************)
(* TemperatureChamber                                                      *)
(***************************************************************************)

TemperatureChamber(name, temperature) ==
    [name |-> name, temperature |-> temperature,
     battery_list |-> <<>>, battery_under_diagnostic |-> <<>>]

\* assign_battery without the check for a barcode the rack already lists.
assign_battery_no_duplicate_check(tc, bd, rack, barcode) ==
    IF bd[barcode].temperature # tc[rack].temperature
    THEN [raised |-> TRUE, error |-> "temperature", tc |-> tc, bd |-> bd]
    ELSE [raised |-> FALSE, error |-> "",
          tc |-> [tc EXCEPT ![rack].battery_list = Append(@, barcode)],
          bd |-> [bd EXCEPT ![barcode].storage_location = tc[rack].name,
                            ![barcode].current_location = tc[rack].name]]

\* assign_battery: the registries after the call, or raised with nothing changed.
assign_battery(tc, bd, rack, barcode) ==
    IF bd[barcode].temperature # tc[rack].temperature
    THEN [raised |-> TRUE, error |-> "temperature", tc |-> tc, bd |-> bd]
    ELSE IF barcode \in Range(tc[rack].battery_list)
    THEN [raised |-> TRUE, error |-> "duplicate", tc |-> tc, bd |-> bd]
    ELSE [raised |-> FALSE, error |-> "",
          tc |-> [tc EXCEPT ![rack].battery_list = Append(@, barcode)],
          bd |-> [bd EXCEPT ![barcode].storage_location = tc[rack].name,
                            ![barcode].current_location = tc[rack].name]]

(***************************************************************************)
(* DiagnosticChamber                                                       *)
(***************************************************************************)

\* load_new_diagnostic_chambers: every channel unoccupied, no occupant.
DiagnosticChamber(name, channel, form_factor) ==
    [name |-> name,
     channels |-> [channel |-> channel,
                   form_factor |-> form_factor,
                   state |-> [i \in 1..Len(channel) |-> "unoccupied"],
                   battery |-> [i \in 1..Len(channel) |-> ""]],
     in_operation |-> FALSE,
     diagnostic_start_time |-> NoTime]

\* cell_compatible without the check of the channel's state.
cell_compatible_any_state(channels, channel_num, form_factor) ==
    IF channels.form_factor[channel_num] = "any" THEN TRUE
    ELSE IF channels.form_factor[channel_num] = form_factor THEN TRUE
    ELSE FALSE

\* cell_compatible without the wildcard capability.
cell_compatible_no_wildcard(channels, channel_num, form_factor) ==
    IF channels.state[channel_num] # "unoccupied" THEN FALSE
    ELSE IF channels.form_factor[channel_num] = form_factor THEN TRUE
    ELSE FALSE

cell_compatible(channels, channel_num, form_factor) ==
    IF channels.state[channel_num] # "unoccupied" THEN FALSE
    ELSE IF channels.form_factor[channel_num] = "any" THEN TRUE
    ELSE IF channels.form_factor[channel_num] = form_factor THEN TRUE
    ELSE FALSE

\* dict[key] = value on an insertion-ordered dict held as a list of entries.
dict_set(dict, key, value) ==
    IF \E i \in 1..Len(dict) : dict[i][1] = key
    THEN [i \in 1..Len(dict) |-> IF dict[i][1] = key THEN <<key, value>> ELSE dict[i]]
    ELSE Append(dict, <<key, value>>)

\* The inner loop of assign_channels without the temporarily_blocked test.
RECURSIVE first_free_channel_unblocked(_, _, _, _)
first_free_channel_unblocked(channels, form_factor, temporarily_blocked, channel_num) ==
    IF channel_num > Len(channels.channel) THEN 0
    ELSE IF cell_compatible(channels, channel_num, form_factor)
    THEN channel_num
    ELSE first_free_channel_unblocked(channels, form_factor, temporarily_blocked,
                                      channel_num + 1)

\* The inner loop of assign_channels preferring a channel of the battery's own
\* form factor over a wildcard channel.
first_free_channel_own_first(channels, form_factor, temporarily_blocked, channel_num) ==
    LET free == {n \in channel_num..Len(channels.channel) :
                    /\ cell_compatible(channels, n, form_factor)
                    /\ n \notin Range(temporarily_blocked)}
        own == {n \in free : channels.form_factor[n] = form_factor}
    IN  IF own # {} THEN CHOOSE n \in own : \A m \in own : n <= m
        ELSE IF free # {} THEN CHOOSE n \in free : \A m \in free : n <= m
        ELSE 0

\* The inner loop of assign_channels: the first channel from channel_num on that
\* is compatible and not temporarily blocked, 0 when the loop ends unassigned.
RECURSIVE first_free_channel(_, _, _, _)
first_free_channel(channels, form_factor, temporarily_blocked, channel_num) ==
    IF channel_num > Len(channels.channel) THEN 0
    ELSE IF cell_compatible(channels, channel_num, form_factor)
            /\ channel_num \notin Range(temporarily_blocked)
    THEN channel_num
    ELSE first_free_channel(channels, form_factor, temporarily_blocked, channel_num + 1)

\* The outer loop of assign_channels from battery k on.  batteries_to_test is a
\* list of Battery records.
RECURSIVE assign_loop(_, _, _, _, _)
assign_loop(channels, batteries_to_test, k, assignment_dict, temporarily_blocked) ==
    IF k > Len(batteries_to_test)
    THEN [raised |-> FALSE, value |-> assignment_dict, error |-> <<>>]
    ELSE LET battery == batteries_to_test[k]
             channel_num == first_free_channel(channels, battery.form_factor,
                                               temporarily_blocked, 1)
         IN  IF channel_num = 0
             THEN [raised |-> TRUE, value |-> <<>>,
                   error |-> <<battery.barcode, battery.form_factor>>]
             ELSE assign_loop(channels, batteries_to_test, k + 1,
                              dict_set(assignment_dict, channels.channel[channel_num],
                                       battery.barcode),
                              Append(temporarily_blocked, channel_num))

assign_channels(channels, batteries_to_test) ==
    assign_loop(channels, batteries_to_test, 1, <<>>, <<>>)

\* create_channel_check_list: one row per entry of assignment_dict, in its order.
create_channel_check_list(self, assignment_dict, bd) ==
    IF \E i \in 1..Len(assignment_dict) : assignment_dict[i][2] \notin DOMAIN bd
    THEN [raised |-> TRUE, rows |-> <<>>]
    ELSE [raised |-> FALSE,
          rows |-> [i \in 1..Len(assignment_dict) |->
                      LET battery == bd[assignment_dict[i][2]]
                      IN  [Barcode |-> battery.barcode,
                           Current_Location |-> battery.current_location,
                           Testing_location |-> self.name,
                           Channel |-> assignment_dict[i][1],
                           Scanned_Barcode |-> ""]]]

\* incorrect_scanned that compares only the first row of the checklist.
incorrect_scanned_first_row(verification_df) ==
    SelectSeq(SubSeq(verification_df, 1, 1),
              LAMBDA row : row.Barcode # row.Scanned_Barcode)

\* The rows of a checklist whose scanned barcode differs from the expected one.
incorrect_scanned(verification_df) ==
    SelectSeq(verification_df, LAMBDA row : row.Barcode # row.Scanned_Barcode)

\* The commit loop of verify_and_load from row idx on.  Each row writes the
\* channel first, then looks the battery and its rack up (KeyError), then
\* writes the rack and the battery.
RECURSIVE load_loop(_, _, _, _, _)
load_loop(self, verification_df, idx, bd, tc) ==
    IF idx > Len(verification_df)
    THEN [raised |-> FALSE, error |-> "", detail |-> <<>>,
          self |-> self, bd |-> bd, tc |-> tc]
    ELSE LET channel == verification_df[idx].Channel
             barcode == verification_df[idx].Barcode
             channel_idx == list_index(self.channels.channel, channel)
             loaded == [self EXCEPT !.channels.state[channel_idx] = "loaded",
                                    !.channels.battery[channel_idx] = barcode]
         IN  IF channel_idx = 0
             THEN [raised |-> TRUE, error |-> "ValueError", detail |-> <<channel>>,
                   self |-> self, bd |-> bd, tc |-> tc]
             ELSE IF barcode \notin DOMAIN bd
             THEN [raised |-> TRUE, error |-> "KeyError", detail |-> <<barcode>>,
                   self |-> loaded, bd |-> bd, tc |-> tc]
             ELSE IF bd[barcode].storage_location \notin DOMAIN tc
             THEN [raised |-> TRUE, error |-> "KeyError",
                   detail |-> <<bd[barcode].storage_location>>,
                   self |-> loaded, bd |-> bd, tc |-> tc]
             ELSE load_loop(loaded, verification_df, idx + 1,
                            [bd EXCEPT ![barcode].current_location = self.name],
                            [tc EXCEPT ![bd[barcode].storage_location]
                                          .battery_under_diagnostic = Append(@, barcode)])

verify_and_load(self, verification_df, bd, tc) ==
    LET incorrect_scanned_df == incorrect_scanned(verification_df)
    IN  IF Len(incorrect_scanned_df) # 0
        THEN [raised |-> TRUE, error |-> "Incorrect barcodes",
              detail |-> [i \in 1..Len(incorrect_scanned_df) |->
                            incorrect_scanned_df[i].Channel],
              self |-> self, bd |-> bd, tc |-> tc]
        ELSE load_loop(self, verification_df, 1, bd, tc)

\* first_under_diag that looks at the first channel only.
first_under_diag_first_channel(self, bd) ==
    IF /\ self.channels.state[1] = "loaded"
       /\ bd[self.channels.battery[1]].under_diag
    THEN 1 ELSE 0

\* The first loaded channel whose occupant is under diagnostic, 0 if none.
first_under_diag(self, bd) ==
    LET hit(i) == /\ self.channels.state[i] = "loaded"
                  /\ bd[self.channels.battery[i]].under_diag
        n == Len(self.channels.channel)
    IN  IF \E i \in 1..n : hit(i)
        THEN CHOOSE i \in 1..n : hit(i) /\ \A j \in 1..(i - 1) : ~hit(j)
        ELSE 0

\* The start loop of start_channel_testing from channel_idx on.
RECURSIVE start_loop(_, _, _, _)
start_loop(self, bd, channel_idx, today_date) ==
    IF channel_idx > Len(self.channels.channel)
    THEN [raised |-> FALSE, error |-> "", detail |-> <<>>, self |-> self, bd |-> bd]
    ELSE LET stamped == [self EXCEPT !.diagnostic_start_time = today_date]
             battery_barcode == self.channels.battery[channel_idx]
             dated == [bd[battery_barcode] EXCEPT
                          !.under_diag = TRUE,
                          !.testing_start_dates = Append(@, today_date)]
             data_file_name == generate_data_file(dated)
             filed == [dated EXCEPT
                          !.test_file_in_progress = data_file_name.value,
                          !.data_file_history = Append(@, data_file_name.value)]
             procedure_file_name == generate_procedure_file(filed)
             done == [filed EXCEPT
                          !.testing_procedure_history =
                              Append(@, procedure_file_name.value)]
         IN  IF self.channels.state[channel_idx] # "loaded"
             THEN start_loop(stamped, bd, channel_idx + 1, today_date)
             ELSE IF data_file_name.raised
             THEN [raised |-> TRUE, error |-> "ValueError",
                   detail |-> <<battery_barcode>>, self |-> stamped,
                   bd |-> [bd EXCEPT ![battery_barcode] = dated]]
             ELSE IF procedure_file_name.raised
             THEN [raised |-> TRUE, error |-> "ValueError",
                   detail |-> <<battery_barcode>>, self |-> stamped,
                   bd |-> [bd EXCEPT ![battery_barcode] = filed]]
             ELSE start_loop([stamped EXCEPT !.channels.state[channel_idx] = "running"],
                             [bd EXCEPT ![battery_barcode] = done],
                             channel_idx + 1, today_date)

\* start_channel_testing that starts the channels without setting in_operation.
start_channel_testing_flag_unset(self, bd, today_date) ==
    LET under == first_under_diag(self, bd)
    IN  IF self.in_operation
        THEN [raised |-> TRUE, error |-> "in operation", detail |-> <<>>,
              self |-> self, bd |-> bd]
        ELSE IF under # 0
        THEN [raised |-> TRUE, error |-> "under Diagnostic",
              detail |-> <<self.channels.battery[under], self.channels.channel[under]>>,
              self |-> self, bd |-> bd]
        ELSE start_loop(self, bd, 1, today_date)

start_channel_testing(self, bd, today_date) ==
    LET under == first_under_diag(self, bd)
    IN  IF self.in_operation
        THEN [raised |-> TRUE, error |-> "in operation", detail |-> <<>>,
              self |-> self, bd |-> bd]
        ELSE IF under # 0
        THEN [raised |-> TRUE, error |-> "under Diagnostic",
              detail |-> <<self.channels.battery[under], self.channels.channel[under]>>,
              self |-> self, bd |-> bd]
        ELSE start_loop([self EXCEPT !.in_operation = TRUE], bd, 1, today_date)

\* The loop of diagnostic_finished from channel_idx on.
RECURSIVE finish_loop(_, _, _)
finish_loop(self, bd, channel_idx) ==
    IF channel_idx > Len(self.channels.channel)
    THEN [raised |-> FALSE, error |-> "", detail |-> <<>>, self |-> self, bd |-> bd]
    ELSE IF self.channels.state[channel_idx] # "running"
    THEN finish_loop(self, bd, channel_idx + 1)
    ELSE LET battery_barcode == self.channels.battery[channel_idx]
         IN  finish_loop([self EXCEPT !.channels.state[channel_idx] = "completed"],
                         [bd EXCEPT ![battery_barcode].under_diag = FALSE,
                                    ![battery_barcode].diagnostic_number = @ + 1,
                                    ![battery_barcode].test_file_in_progress = <<>>],
                         channel_idx + 1)

diagnostic_finished(self, bd) ==
    IF ~self.in_operation
    THEN [raised |-> TRUE, error |-> "not in operation", detail |-> <<>>,
          self |-> self, bd |-> bd]
    ELSE finish_loop([self EXCEPT !.in_operation = FALSE], bd, 1)

\* The columns of the return checklist.
ReturnColumns ==
    {"Barcode", "Current_Location", "Channel", "Storage_Location", "Scanned_Barcode"}

\* The default sort_by of generate_return_check_list, as the source spells it.
default_sort_by == <<"Storage_location", "Channel">>

\* row1 sorts strictly before row2 under the columns of sort_by from k on.
RECURSIVE row_before(_, _, _, _)
row_before(row1, row2, sort_by, k) ==
    IF k > Len(sort_by) THEN FALSE
    ELSE IF NameRank(row1[sort_by[k]]) < NameRank(row2[sort_by[k]]) THEN TRUE
    ELSE IF NameRank(row1[sort_by[k]]) > NameRank(row2[sort_by[k]]) THEN FALSE
    ELSE row_before(row1, row2, sort_by, k + 1)

\* df.sort_values(sort_by): ascending, rows with equal keys kept in order.
RECURSIVE sort_values(_, _)
sort_values(df, sort_by) ==
    IF Len(df) <= 1 THEN df
    ELSE LET rest == sort_values(Tail(df), sort_by)
             head == Head(df)
             before == SelectSeq(rest, LAMBDA row : row_before(row, head, sort_by, 1))
             after == SelectSeq(rest, LAMBDA row : ~row_before(row, head, sort_by, 1))
         IN  before \o <<head>> \o after

\* generate_return_check_list: one row per completed channel, then sorted.
\* raised = TRUE is the KeyError of sort_values for a column the table lacks;
\* it is raised before the csv is written.
generate_return_check_list(self, bd, sort_by) ==
    LET completed == SelectSeq([i \in 1..Len(self.channels.channel) |-> i],
                               LAMBDA i : self.channels.state[i] = "completed")
        df == [k \in 1..Len(completed) |->
                 LET battery == bd[self.channels.battery[completed[k]]]
                 IN  [Barcode |-> battery.barcode,
                      Current_Location |-> battery.current_location,
                      Channel |-> self.channels.channel[completed[k]],
                      Storage_Location |-> battery.storage_location,
                      Scanned_Barcode |-> ""]]
    IN  IF \E k \in 1..Len(sort_by) : sort_by[k] \notin ReturnColumns
        THEN [raised |-> TRUE, rows |-> <<>>]
        ELSE [raised |-> FALSE, rows |-> sort_values(df, sort_by)]

\* The commit loop of verify_and_return from row idx on.
RECURSIVE return_loop(_, _, _, _, _)
return_loop(self, verification_df, idx, bd, tc) ==
    IF idx > Len(verification_df)
    THEN [raised |-> FALSE, error |-> "", detail |-> <<>>,
          self |-> self, bd |-> bd, tc |-> tc]
    ELSE LET channel == verification_df[idx].Channel
             barcode == verification_df[idx].Barcode
             channel_idx == list_index(self.channels.channel, channel)
             emptied == [self EXCEPT !.channels.state[channel_idx] = "unoccupied",
                                     !.channels.battery[channel_idx] = ""]
             rack == bd[barcode].storage_location
         IN  IF channel_idx = 0
             THEN [raised |-> TRUE, error |-> "ValueError", detail |-> <<channel>>,
                   self |-> self, bd |-> bd, tc |-> tc]
             ELSE IF barcode \notin DOMAIN bd
             THEN [raised |-> TRUE, error |-> "KeyError", detail |-> <<barcode>>,
                   self |-> emptied, bd |-> bd, tc |-> tc]
             ELSE IF rack \notin DOMAIN tc
             THEN [raised |-> TRUE, error |-> "KeyError", detail |-> <<rack>>,
                   self |-> emptied, bd |-> bd, tc |-> tc]
             ELSE IF barcode \notin Range(tc[rack].battery_under_diagnostic)
             THEN [raised |-> TRUE, error |-> "ValueError", detail |-> <<barcode>>,
                   self |-> emptied, bd |-> bd, tc |-> tc]
             ELSE return_loop(emptied, verification_df, idx + 1,
                              [bd EXCEPT ![barcode].current_location = tc[rack].name],
                              [tc EXCEPT ![rack].battery_under_diagnostic =
                                            list_remove(@, barcode)])

verify_and_return(self, verification_df, bd, tc) ==
    LET incorrect_scanned_df == incorrect_scanned(verification_df)
    IN  IF Len(incorrect_scanned_df) # 0
        THEN [raised |-> TRUE, error |-> "Incorrect barcodes",
              detail |-> [i \in 1..Len(incorrect_scanned_df) |->
                            incorrect_scanned_df[i].Barcode],
              self |-> self, bd |-> bd, tc |-> tc]
        ELSE return_loop(self, verification_df, 1, bd, tc)

(***************************************************************************)
(* The registry after onboarding, and the calls made on it                 *)
(***************************************************************************)

\* load_new_batteries: every battery unassigned, never tested.
NewBatteries ==
    [barcode \in Barcodes |->
        IF barcode = "A"
        THEN Battery("P", "A", "1", 25, 50, 1, "LFP", "pouch")
        ELSE Battery("P", "B", "2", 25, 50, 2, "NMC", "18650")]

\* load_new_diagnostic_chambers: S1 = [(C1, pouch), (C2, any)], S2 = [(D1, any)].
NewDiagnosticChambers ==
    [name \in Stations |->
        IF name = "S1"
        THEN DiagnosticChamber("S1", <<"C1", "C2">>, <<"pouch", "any">>)
        ELSE DiagnosticChamber("S2", <<"D1">>, <<"any">>)]

\* load_new_temperature_chambers: T1 held at 25, T2 at 45, both empty.
NewTemperatureChambers ==
    [name \in Racks |->
        TemperatureChamber(name, IF name = "T1" THEN 25 ELSE 45)]

\* What the last call did: its name, receiver and arguments, whether it raised,
\* the kind of error and what the message identifies, and the value it returned.
Result(op, station, args, raised, error, detail, value) ==
    [op |-> op, station |-> station, args |-> args, raised |-> raised,
     error |-> error, detail |-> detail, value |-> value]

\* The registries after assign_battery has put each barcode of assigned, in
\* order, into rack T1.
RECURSIVE Stored(_, _, _)
Stored(tc, bd, assigned) ==
    IF assigned = <<>> THEN [tc |-> tc, bd |-> bd]
    ELSE LET out == assign_battery(tc, bd, "T1", Head(assigned))
         IN  Stored(out.tc, out.bd, Tail(assigned))

\* The station lifecycle starts from an onboarded registry: A is stored in
\* T1, B is stored in T1 or still unassigned.
Init ==
    /\ \E assigned \in {<<"A">>, <<"A", "B">>} :
           LET out == Stored(NewTemperatureChambers, NewBatteries, assigned)
           IN  /\ battery_obj_dict = out.bd
               /\ temp_chamb_obj_dict = out.tc
    /\ diag_chamb_obj_dict = NewDiagnosticChambers
    /\ csv_files = [path \in {LoadCsv, ReturnCsv} |-> <<>>]
    /\ clock = 0
    /\ calls = 0
    /\ result = Result("load", "", <<>>, FALSE, "", <<>>, <<>>)

\* The lists of distinct barcodes of length 1..MaxBatch.
Batches ==
    {batch \in UNION {[1..n -> Barcodes] : n \in 1..MaxBatch} :
        \A i, j \in 1..Len(batch) : i # j => batch[i] # batch[j]}

\* The checklist at path with the operator's scans filled in.
Scanned(path, scans) ==
    [i \in 1..Len(csv_files[path]) |->
        [csv_files[path][i] EXCEPT !.Scanned_Barcode = scans[i]]]

\* What an operator can scan into the rows of the checklist at path: a
\* barcode, or nothing (the cell is left empty).
Scans(path) == [1..Len(csv_files[path]) -> Barcodes \cup {""}]

\* temp_chamb_obj_dict[rack].assign_battery(battery_obj_dict[barcode])
AssignBattery(rack, barcode) ==
    LET out == assign_battery(temp_chamb_obj_dict, battery_obj_dict, rack, barcode)
    IN  /\ temp_chamb_obj_dict' = out.tc
        /\ battery_obj_dict' = out.bd
        /\ result' = Result("assign_battery", rack, <<barcode>>, out.raised, out.error,
                            <<>>, <<>>)
        /\ UNCHANGED <<diag_chamb_obj_dict, csv_files, clock>>

\* assign_channels that marks each channel loaded as it claims it, and leaves
\* the claims made so far in place when a later battery cannot be assigned.
RECURSIVE claim_loop(_, _, _)
claim_loop(self, batteries_to_test, k) ==
    IF k > Len(batteries_to_test) THEN self
    ELSE LET battery == batteries_to_test[k]
             channel_num == first_free_channel(self.channels, battery.form_factor, <<>>, 1)
         IN  IF channel_num = 0 THEN self
             ELSE claim_loop([self EXCEPT !.channels.state[channel_num] = "loaded",
                                          !.channels.battery[channel_num] = battery.barcode],
                             batteries_to_test, k + 1)

AssignChannels_incremental(station, batch) ==
    LET batteries_to_test == [i \in 1..Len(batch) |-> battery_obj_dict[batch[i]]]
        out == assign_channels(diag_chamb_obj_dict[station].channels, batteries_to_test)
    IN  /\ result' = Result("assign_channels", station, batch, out.raised,
                            IF out.raised THEN "unable to be assigned" ELSE "",
                            out.error, out.value)
        /\ diag_chamb_obj_dict' =
               [diag_chamb_obj_dict EXCEPT
                   ![station] = claim_loop(@, batteries_to_test, 1)]
        /\ UNCHANGED <<battery_obj_dict, temp_chamb_obj_dict, csv_files, clock>>

\* assign_channels whose temporarily_blocked list outlives the call: the
\* channels of the mapping returned last for the station stay blocked.
AssignChannels_keeping_blocked(station, batch) ==
    LET batteries_to_test == [i \in 1..Len(batch) |-> battery_obj_dict[batch[i]]]
        channels == diag_chamb_obj_dict[station].channels
        kept == IF result.op = "assign_channels" /\ result.station = station
                THEN [i \in 1..Len(result.value) |->
                         list_index(channels.channel, result.value[i][1])]
                ELSE <<>>
        out == assign_loop(channels, batteries_to_test, 1, <<>>, kept)
    IN  /\ result' = Result("assign_channels", station, batch, out.raised,
                            IF out.raised THEN "unable to be assigned" ELSE "",
                            out.error, out.value)
        /\ UNCHANGED <<battery_obj_dict, diag_chamb_obj_dict, temp_chamb_obj_dict,
                       csv_files, clock>>

\* diag_chamb_obj_dict[station].assign_channels([battery_obj_dict[b] for b in batch])
AssignChannels(station, batch) ==
    LET batteries_to_test == [i \in 1..Len(batch) |-> battery_obj_dict[batch[i]]]
        out == assign_channels(diag_chamb_obj_dict[station].channels, batteries_to_test)
    IN  /\ result' = Result("assign_channels", station, batch, out.raised,
                            IF out.raised THEN "unable to be assigned" ELSE "",
                            out.error, out.value)
        /\ UNCHANGED <<battery_obj_dict, diag_chamb_obj_dict, temp_chamb_obj_dict,
                       csv_files, clock>>

\* create_channel_check_list on the mapping assign_channels just returned.
CreateChannelCheckList(station) ==
    /\ result.op = "assign_channels"
    /\ result.station = station
    /\ ~result.raised
    /\ LET out == create_channel_check_list(diag_chamb_obj_dict[station],
                                            result.value, battery_obj_dict)
       IN  /\ csv_files' = IF out.raised THEN csv_files
                           ELSE [csv_files EXCEPT ![LoadCsv] = out.rows]
           /\ result' = Result("create_channel_check_list", station, <<>>, out.raised,
                               IF out.raised THEN "KeyError" ELSE "", <<>>, <<>>)
    /\ UNCHANGED <<battery_obj_dict, diag_chamb_obj_dict, temp_chamb_obj_dict, clock>>

\* verify_and_load on the load checklist as the operator filled it in.
VerifyAndLoad(station, scans) ==
    /\ Len(csv_files[LoadCsv]) > 0
    /\ LET verification_df == Scanned(LoadCsv, scans)
           out == verify_and_load(diag_chamb_obj_dict[station], verification_df,
                                  battery_obj_dict, temp_chamb_obj_dict)
       IN  /\ diag_chamb_obj_dict' = [diag_chamb_obj_dict EXCEPT ![station] = out.self]
           /\ battery_obj_dict' = out.bd
           /\ temp_chamb_obj_dict' = out.tc
           /\ result' = Result("verify_and_load", station, scans, out.raised, out.error,
                               out.detail, <<>>)
    /\ UNCHANGED <<csv_files, clock>>

\* start_channel_testing at time today_date.
StartChannelTesting(station, today_date) ==
    /\ today_date >= clock
    /\ LET out == start_channel_testing(diag_chamb_obj_dict[station],
                                        battery_obj_dict, today_date)
       IN  /\ diag_chamb_obj_dict' = [diag_chamb_obj_dict EXCEPT ![station] = out.self]
           /\ battery_obj_dict' = out.bd
           /\ result' = Result("start_channel_testing", station, <<today_date>>,
                               out.raised,
                               out.error, out.detail, <<>>)
    /\ clock' = today_date
    /\ UNCHANGED <<temp_chamb_obj_dict, csv_files>>

DiagnosticFinished(station) ==
    LET out == diagnostic_finished(diag_chamb_obj_dict[station], battery_obj_dict)
    IN  /\ diag_chamb_obj_dict' = [diag_chamb_obj_dict EXCEPT ![station] = out.self]
        /\ battery_obj_dict' = out.bd
        /\ result' = Result("diagnostic_finished", station, <<>>, out.raised, out.error,
                            out.detail, <<>>)
        /\ UNCHANGED <<temp_chamb_obj_dict, csv_files, clock>>

\* generate_return_check_list with the default sort_by or a caller's.
GenerateReturnCheckList(station, sort_by) ==
    LET out == generate_return_check_list(diag_chamb_obj_dict[station],
                                          battery_obj_dict, sort_by)
    IN  /\ csv_files' = IF out.raised THEN csv_files
                        ELSE [csv_files EXCEPT ![ReturnCsv] = out.rows]
        /\ result' = Result("generate_return_check_list", station, sort_by,
                            out.raised,
                            IF out.raised THEN "KeyError" ELSE "", <<>>, <<>>)
        /\ UNCHANGED <<battery_obj_dict, diag_chamb_obj_dict, temp_chamb_obj_dict,
                       clock>>

\* verify_and_return on the return checklist as the operator filled it in.
VerifyAndReturn(station, scans) ==
    /\ Len(csv_files[ReturnCsv]) > 0
    /\ LET verification_df == Scanned(ReturnCsv, scans)
           out == verify_and_return(diag_chamb_obj_dict[station], verification_df,
                                    battery_obj_dict, temp_chamb_obj_dict)
       IN  /\ diag_chamb_obj_dict' = [diag_chamb_obj_dict EXCEPT ![station] = out.self]
           /\ battery_obj_dict' = out.bd
           /\ temp_chamb_obj_dict' = out.tc
           /\ result' = Result("verify_and_return", station, scans, out.raised, out.error,
                               out.detail, <<>>)
    /\ UNCHANGED <<csv_files, clock>>

\* The sort_by arguments callers pass: the default and the table's own columns.
SortBys == {default_sort_by, <<"Storage_Location", "Channel">>}

\* One more call, while the run has calls left.
Call ==
    /\ calls < MaxCalls
    /\ calls' = calls + 1

Next ==
    \/ \E station \in Stations, batch \in Batches : Call /\ AssignChannels(station, batch)
    \/ \E station \in Stations : Call /\ CreateChannelCheckList(station)
    \/ \E station \in Stations, scans \in Scans(LoadCsv) : Call /\ VerifyAndLoad(station, scans)
    \/ \E station \in Stations, today_date \in 0..MaxClock :
           Call /\ StartChannelTesting(station, today_date)
    \/ \E station \in Stations : Call /\ DiagnosticFinished(station)
    \/ \E station \in Stations, sort_by \in SortBys :
           Call /\ GenerateReturnCheckList(station, sort_by)
    \/ \E station \in Stations, scans \in Scans(ReturnCsv) : Call /\ VerifyAndReturn(station, scans)

Spec == Init /\ [][Next]_vars

(***************************************************************************)
(* assign_channels and cell_compatible on any channel table                *)
(***************************************************************************)

\* The capabilities a channel of the drawn table can have.
Capabilities == {"pouch", "18650", "any"}

\* Station S1 with a two-channel table in any state: channel C1 is held by A
\* and C2 by B when they are not unoccupied.  Batteries A and B have any valid
\* form factor.
InitAssign ==
    /\ \E form_factor \in [Barcodes -> valid_form_factors] :
           battery_obj_dict =
               [barcode \in Barcodes |->
                   [NewBatteries[barcode] EXCEPT !.form_factor = form_factor[barcode]]]
    /\ \E capability \in [1..2 -> Capabilities], state \in [1..2 -> ChannelStates] :
           diag_chamb_obj_dict =
               [NewDiagnosticChambers EXCEPT
                   !["S1"].channels.form_factor = capability,
                   !["S1"].channels.state = state,
                   !["S1"].channels.battery =
                       [i \in 1..2 |-> IF state[i] = "unoccupied" THEN ""
                                       ELSE IF i = 1 THEN "A" ELSE "B"]]
    /\ temp_chamb_obj_dict = NewTemperatureChambers
    /\ csv_files = [path \in {LoadCsv, ReturnCsv} |-> <<>>]
    /\ clock = 0
    /\ calls = 0
    /\ result = Result("load", "", <<>>, FALSE, "", <<>>, <<>>)

\* diag_chamb_obj_dict[station].cell_compatible(channel_num - 1, form_factor)
CellCompatible(station, channel_num, form_factor) ==
    /\ channel_num \in 1..Len(diag_chamb_obj_dict[station].channels.channel)
    /\ result' = Result("cell_compatible", station, <<channel_num, form_factor>>,
                        FALSE, "", <<>>,
                        <<cell_compatible(diag_chamb_obj_dict[station].channels,
                                          channel_num, form_factor)>>)
    /\ UNCHANGED <<battery_obj_dict, diag_chamb_obj_dict, temp_chamb_obj_dict,
                   csv_files, clock, calls>>

NextAssign ==
    \/ \E station \in Stations, batch \in Batches :
           AssignChannels(station, batch) /\ UNCHANGED calls
    \/ \E station \in Stations, channel_num \in 1..2,
          form_factor \in valid_form_factors :
           CellCompatible(station, channel_num, form_factor)

SpecAssign == InitAssign /\ [][NextAssign]_vars

(***************************************************************************)
(* Channel assignment: C5, C6, C7, C8                                      *)
(***************************************************************************)

\* The channel table of the station the last call was made on.
ResultChannels == diag_chamb_obj_dict[result.station].channels

\* Channel n of table channels can take a battery of form factor f: it is
\* unoccupied and its capability is the wildcard or f.
CanTake(channels, n, f) ==
    /\ channels.state[n] = "unoccupied"
    /\ channels.form_factor[n] \in {"any", f}

\* The index of the channel the k-th entry of a returned mapping names.
ClaimOf(channels, mapping, k) == list_index(channels.channel, mapping[k][1])

\* mapping is the first-fit mapping of batch on channels: entry k gives batch[k]
\* the lowest channel that can take it and that no earlier entry claims.
IsFirstFit(channels, batch, mapping) ==
    /\ Len(mapping) = Len(batch)
    /\ \A k \in 1..Len(batch) :
           LET f == battery_obj_dict[batch[k]].form_factor
               n == ClaimOf(channels, mapping, k)
               earlier == {ClaimOf(channels, mapping, j) : j \in 1..(k - 1)}
           IN  /\ mapping[k][2] = batch[k]
               /\ n # 0
               /\ CanTake(channels, n, f)
               /\ n \notin earlier
               /\ \A m \in 1..(n - 1) : ~CanTake(channels, m, f) \/ m \in earlier

\* Station S1 is unoccupied with channels [(C1, pouch), (C2, any)], A is a
\* pouch cell and B has form factor f.
Scenario(f) ==
    /\ diag_chamb_obj_dict["S1"].channels.form_factor = <<"pouch", "any">>
    /\ diag_chamb_obj_dict["S1"].channels.state = <<"unoccupied", "unoccupied">>
    /\ battery_obj_dict["A"].form_factor = "pouch"
    /\ battery_obj_dict["B"].form_factor = f

\* The last call was S1.assign_channels([A, B]).
AssignedAB ==
    /\ result.op = "assign_channels"
    /\ result.station = "S1"
    /\ result.args = <<"A", "B">>

\* C5: a mapping returned by assign_channels is the first-fit mapping of the
\* batch, in input order; channels [(C1, pouch), (C2, any)] with units
\* [(A, pouch), (B, 18650)] yield exactly {C1: A, C2: B}.
C5_FirstFit ==
    /\ (result.op = "assign_channels" /\ ~result.raised)
           => IsFirstFit(ResultChannels, result.args, result.value)
    /\ (Scenario("18650") /\ AssignedAB)
           => /\ ~result.raised
              /\ result.value = <<(<<"C1", "A">>), (<<"C2", "B">>)>>

\* C5 witness: the scenario of the claim has been assigned.
C5_Witness ==
    /\ Scenario("18650")
    /\ AssignedAB
    /\ ~result.raised

\* C6: cell_compatible is false on a channel that is not unoccupied, whatever
\* its capability; on an unoccupied channel it is true for the wildcard, true
\* for the battery's own form factor and false otherwise.
C6_CellCompatible ==
    result.op = "cell_compatible" =>
        LET n == result.args[1]
            f == result.args[2]
            compatible == result.value[1]
        IN  /\ ResultChannels.state[n] # "unoccupied" => ~compatible
            /\ (ResultChannels.state[n] = "unoccupied"
                    /\ ResultChannels.form_factor[n] = "any") => compatible
            /\ (ResultChannels.state[n] = "unoccupied"
                    /\ ResultChannels.form_factor[n] = f) => compatible
            /\ (ResultChannels.state[n] = "unoccupied"
                    /\ ResultChannels.form_factor[n] # "any"
                    /\ ResultChannels.form_factor[n] # f) => ~compatible

\* C6 witness: cell_compatible was asked about a running wildcard channel.
C6_Witness ==
    /\ result.op = "cell_compatible"
    /\ ResultChannels.state[result.args[1]] = "running"
    /\ ResultChannels.form_factor[result.args[1]] = "any"
    /\ result.value = <<FALSE>>

\* The k-th battery of batch finds no channel after the batteries before it
\* have taken theirs by first fit.
Unplaced(channels, batch, k) ==
    \E mapping \in [1..(k - 1) -> (Range(channels.channel) \X Barcodes)] :
        /\ IsFirstFit(channels, SubSeq(batch, 1, k - 1), mapping)
        /\ \A n \in 1..Len(channels.channel) :
               \/ ~CanTake(channels, n, battery_obj_dict[batch[k]].form_factor)
               \/ n \in {ClaimOf(channels, mapping, j) : j \in 1..(k - 1)}

C8_Original ==
    (Scenario("pouch") /\ AssignedAB)
        => /\ result.raised
           /\ result.detail = <<"B", "pouch">>

\* C8 amended: on the unoccupied station [(C1, pouch), (C2, any)], units
\* [(A, pouch), (B, pouch)] are both placed, A on C1 and B on the wildcard
\* channel C2, and no error is raised.
C8_Amended ==
    (Scenario("pouch") /\ AssignedAB)
        => /\ ~result.raised
           /\ result.value = <<(<<"C1", "A">>), (<<"C2", "B">>)>>

\* C8 witness: two pouch cells have been assigned on the scenario's station.
C8_Witness ==
    /\ Scenario("pouch")
    /\ AssignedAB

(***************************************************************************)
(* Station lifecycle and verification: C1, C2, C3, C4, C9, C10             *)
(***************************************************************************)

\* The transitions of the channel state machine.
Lifecycle ==
    {<<"unoccupied", "loaded">>, <<"loaded", "running">>,
     <<"running", "completed">>, <<"completed", "unoccupied">>}

\* The positions of a station's channel table.
ChannelsOf(station) == 1..Len(diag_chamb_obj_dict[station].channels.channel)

\* C1: every change of a channel's state is unoccupied->loaded,
\* loaded->running, running->completed or completed->unoccupied.
C1_Transitions ==
    [][\A station \in Stations : \A i \in ChannelsOf(station) :
           LET before == diag_chamb_obj_dict[station].channels.state[i]
               after == diag_chamb_obj_dict'[station].channels.state[i]
           IN  before # after => <<before, after>> \in Lifecycle]_vars

\* C2: a unit is under diagnostic exactly when it is the occupant of a
\* running channel.
C2_UnderDiagIffRunning ==
    \A barcode \in Barcodes :
        battery_obj_dict[barcode].under_diag
            <=> \E station \in Stations : \E i \in ChannelsOf(station) :
                    /\ diag_chamb_obj_dict[station].channels.state[i] = "running"
                    /\ diag_chamb_obj_dict[station].channels.battery[i] = barcode

\* The checklist a verification call reads.
ChecklistOf(op) == csv_files[IF op = "verify_and_load" THEN LoadCsv ELSE ReturnCsv]

VerifyOps == {"verify_and_load", "verify_and_return"}

\* The rows of the checklist of call r whose scan differs from the barcode.
Mismatched(r) ==
    {i \in 1..Len(ChecklistOf(r.op)) : r.args[i] # ChecklistOf(r.op)[i].Barcode}

\* C3: a verification with a mismatched row fails with the mismatch error
\* and changes no channel, rack or battery.
C3_MismatchCommitsNothing ==
    [][(result'.op \in VerifyOps /\ Mismatched(result') # {})
        => /\ result'.raised
           /\ result'.error = "Incorrect barcodes"
           /\ UNCHANGED <<diag_chamb_obj_dict, temp_chamb_obj_dict,
                          battery_obj_dict>>]_vars

\* C3 witness: a two-row load checklist was rejected for its second row alone.
C3_Witness ==
    /\ result.op = "verify_and_load"
    /\ Len(csv_files[LoadCsv]) = 2
    /\ Mismatched(result) = {2}
    /\ result.raised

\* C4: a verification whose scans all match either commits every row or
\* fails with every channel, rack and battery unchanged.
C4_AllOrNothing ==
    [][(result'.op \in VerifyOps /\ Mismatched(result') = {} /\ result'.raised)
        => UNCHANGED <<diag_chamb_obj_dict, temp_chamb_obj_dict,
                       battery_obj_dict>>]_vars

\* Some loaded channel of the station holds a unit that is under diagnostic.
LoadedUnderDiag(station) ==
    \E i \in ChannelsOf(station) :
        /\ diag_chamb_obj_dict[station].channels.state[i] = "loaded"
        /\ battery_obj_dict[diag_chamb_obj_dict[station].channels.battery[i]].under_diag

\* C9: start_channel_testing fails on a station in operation and on a station
\* with a loaded unit that is under diagnostic, and then changes nothing.
C9_StartRefused ==
    [][(/\ result'.op = "start_channel_testing"
        /\ \/ diag_chamb_obj_dict[result'.station].in_operation
           \/ LoadedUnderDiag(result'.station))
        => /\ result'.raised
           /\ UNCHANGED <<diag_chamb_obj_dict, temp_chamb_obj_dict,
                          battery_obj_dict>>]_vars

\* C9 witness: a start was refused for a unit under diagnostic on the
\* station's second channel.
C9_Witness ==
    /\ result.op = "start_channel_testing"
    /\ result.raised
    /\ result.error = "under Diagnostic"
    /\ result.detail[2] = "C2"

\* The units on the loaded channels of a station.
LoadedUnits(station) ==
    {diag_chamb_obj_dict[station].channels.battery[i] :
        i \in {j \in ChannelsOf(station) :
                  diag_chamb_obj_dict[station].channels.state[j] = "loaded"}}

\* C10: a successful start takes every loaded channel to running and leaves
\* the other channels alone, sets in_operation, and gives each started unit
\* under_diag, one more start date, data file and procedure file, the date
\* being the station's diagnostic start time.
C10_StartEffects ==
    [][(result'.op = "start_channel_testing" /\ ~result'.raised)
        => LET station == result'.station
               before == diag_chamb_obj_dict[station]
               after == diag_chamb_obj_dict'[station]
           IN  /\ \A i \in ChannelsOf(station) :
                      after.channels.state[i] =
                          IF before.channels.state[i] = "loaded" THEN "running"
                          ELSE before.channels.state[i]
               /\ after.in_operation
               /\ \A barcode \in LoadedUnits(station) :
                      LET old == battery_obj_dict[barcode]
                          new == battery_obj_dict'[barcode]
                      IN  /\ new.under_diag
                          /\ Len(new.testing_start_dates) =
                                 Len(old.testing_start_dates) + 1
                          /\ Len(new.data_file_history) =
                                 Len(old.data_file_history) + 1
                          /\ Len(new.testing_procedure_history) =
                                 Len(old.testing_procedure_history) + 1
                          /\ new.testing_start_dates[Len(new.testing_start_dates)]
                                 = after.diagnostic_start_time]_vars

(***************************************************************************)
(* Station finish and failed calls: C11, C12                               *)
(***************************************************************************)

\* The units on the running channels of a station.
RunningUnits(station) ==
    {diag_chamb_obj_dict[station].channels.battery[i] :
        i \in {j \in ChannelsOf(station) :
                  diag_chamb_obj_dict[station].channels.state[j] = "running"}}

\* C11: diagnostic_finished fails and changes nothing on a station that is not
\* in operation; otherwise every running channel becomes completed and keeps
\* its occupant, the other channels are unchanged, in_operation becomes false,
\* and each occupant of a running channel has its diagnostic counter raised by
\* exactly 1 and under_diag cleared.
C11_FinishEffects ==
    [][result'.op = "diagnostic_finished"
        => LET station == result'.station
               before == diag_chamb_obj_dict[station]
               after == diag_chamb_obj_dict'[station]
           IN  IF ~before.in_operation
               THEN /\ result'.raised
                    /\ UNCHANGED <<diag_chamb_obj_dict, temp_chamb_obj_dict,
                                   battery_obj_dict>>
               ELSE /\ ~result'.raised
                    /\ \A i \in ChannelsOf(station) :
                           after.channels.state[i] =
                               IF before.channels.state[i] = "running"
                               THEN "completed" ELSE before.channels.state[i]
                    /\ after.channels.battery = before.channels.battery
                    /\ ~after.in_operation
                    /\ \A barcode \in RunningUnits(station) :
                           /\ battery_obj_dict'[barcode].diagnostic_number =
                                  battery_obj_dict[barcode].diagnostic_number + 1
                           /\ ~battery_obj_dict'[barcode].under_diag]_vars

\* The batteries of a registry whose unit B was written with no cell type: the
\* constructor stores cell_type as given, so it is None.
UnsetBatteries ==
    [barcode \in Barcodes |->
        IF barcode = "A"
        THEN Battery("P", "A", "1", 25, 50, 1, "LFP", "pouch")
        ELSE Battery("P", "B", "2", 25, 50, 2, None, "18650")]

\* The onboarded registry of Init, with unit B's cell type unset.
InitUnset ==
    /\ \E assigned \in {<<"A">>, <<"A", "B">>} :
           LET out == Stored(NewTemperatureChambers, UnsetBatteries, assigned)
           IN  /\ battery_obj_dict = out.bd
               /\ temp_chamb_obj_dict = out.tc
    /\ diag_chamb_obj_dict = NewDiagnosticChambers
    /\ csv_files = [path \in {LoadCsv, ReturnCsv} |-> <<>>]
    /\ clock = 0
    /\ calls = 0
    /\ result = Result("load", "", <<>>, FALSE, "", <<>>, <<>>)

SpecUnset == InitUnset /\ [][Next]_vars

\* C12: a call of start_channel_testing or diagnostic_finished that fails, for
\* whatever reason, leaves every station (in_operation, start time, channel
\* states) and every unit as it was before the call.
C12_FailedCallNoMutation ==
    [][(result'.op \in {"start_channel_testing", "diagnostic_finished"}
            /\ result'.raised)
        => UNCHANGED <<diag_chamb_obj_dict, battery_obj_dict>>]_vars

(***************************************************************************)
(* Committed verifications: C13, C14                                       *)
(***************************************************************************)

\* The checklist at path was written for this station: every row names one of
\* its channels.
ListsChannelsOf(path, station) ==
    \A i \in 1..Len(csv_files[path]) :
        csv_files[path][i].Channel
            \in Range(diag_chamb_obj_dict[station].channels.channel)

\* The positions in the station's channel table that the checklist at path lists.
Listed(path, station) ==
    {list_index(diag_chamb_obj_dict[station].channels.channel,
                csv_files[path][i].Channel) : i \in 1..Len(csv_files[path])}

\* The barcodes the checklist at path expects.
ListedUnits(path) == {csv_files[path][i].Barcode : i \in 1..Len(csv_files[path])}

\* The barcodes of the checklist at path whose unit is stored in rack, in row
\* order.
StoredIn(path, rack) ==
    LET expected == [i \in 1..Len(csv_files[path]) |-> csv_files[path][i].Barcode]
    IN  SelectSeq(expected,
                  LAMBDA barcode : battery_obj_dict[barcode].storage_location = rack)

\* Every station other than this one, and every channel of this one that the
\* checklist at path does not list, is unchanged; so are the station's own
\* in_operation and start time.
UnlistedChannelsUnchanged(path, station) ==
    /\ \A other \in Stations \ {station} :
           diag_chamb_obj_dict'[other] = diag_chamb_obj_dict[other]
    /\ diag_chamb_obj_dict'[station].in_operation
           = diag_chamb_obj_dict[station].in_operation
    /\ diag_chamb_obj_dict'[station].diagnostic_start_time
           = diag_chamb_obj_dict[station].diagnostic_start_time
    /\ \A i \in ChannelsOf(station) \ Listed(path, station) :
           /\ diag_chamb_obj_dict'[station].channels.state[i]
                  = diag_chamb_obj_dict[station].channels.state[i]
           /\ diag_chamb_obj_dict'[station].channels.battery[i]
                  = diag_chamb_obj_dict[station].channels.battery[i]

\* C13: a verify_and_load whose scans all match sets each listed channel to
\* loaded with the expected barcode as occupant, appends that barcode to the
\* on-loan list of the unit's storage rack and sets the unit's current
\* location to the station; unlisted channels, the racks' resident lists and
\* the other racks and units are unchanged.
C13_LoadCommit ==
    [][(/\ result'.op = "verify_and_load"
        /\ ListsChannelsOf(LoadCsv, result'.station)
        /\ Mismatched(result') = {})
        => LET station == result'.station
               rows == csv_files[LoadCsv]
               channels == diag_chamb_obj_dict[station].channels
           IN  /\ ~result'.raised
               /\ \A i \in 1..Len(rows) :
                      LET n == list_index(channels.channel, rows[i].Channel)
                      IN  /\ diag_chamb_obj_dict'[station].channels.state[n] = "loaded"
                          /\ diag_chamb_obj_dict'[station].channels.battery[n]
                                 = rows[i].Barcode
               /\ UnlistedChannelsUnchanged(LoadCsv, station)
               /\ \A rack \in Racks :
                      temp_chamb_obj_dict'[rack] =
                          [temp_chamb_obj_dict[rack] EXCEPT
                              !.battery_under_diagnostic = @ \o StoredIn(LoadCsv, rack)]
               /\ \A barcode \in Barcodes :
                      battery_obj_dict'[barcode] =
                          IF barcode \in ListedUnits(LoadCsv)
                          THEN [battery_obj_dict[barcode] EXCEPT
                                   !.current_location = station]
                          ELSE battery_obj_dict[barcode]]_vars

\* lst after list.remove of each barcode of removed, in order.
RECURSIVE RemoveAll(_, _)
RemoveAll(lst, removed) ==
    IF removed = <<>> THEN lst
    ELSE RemoveAll(list_remove(lst, Head(removed)), Tail(removed))

\* C14: a verify_and_return whose scans all match takes each listed channel
\* from completed to unoccupied with an empty occupant, removes the barcode
\* from the on-loan list of the unit's storage rack and sets the unit's
\* current location to that rack; unlisted channels, the racks' resident
\* lists and the other racks and units are unchanged.
C14_ReturnCommit ==
    [][(/\ result'.op = "verify_and_return"
        /\ ListsChannelsOf(ReturnCsv, result'.station)
        /\ Mismatched(result') = {})
        => LET station == result'.station
               rows == csv_files[ReturnCsv]
               channels == diag_chamb_obj_dict[station].channels
           IN  /\ ~result'.raised
               /\ \A i \in 1..Len(rows) :
                      LET n == list_index(channels.channel, rows[i].Channel)
                      IN  /\ channels.state[n] = "completed"
                          /\ diag_chamb_obj_dict'[station].channels.state[n]
                                 = "unoccupied"
                          /\ diag_chamb_obj_dict'[station].channels.battery[n] = ""
               /\ UnlistedChannelsUnchanged(ReturnCsv, station)
               /\ \A rack \in Racks :
                      temp_chamb_obj_dict'[rack] =
                          [temp_chamb_obj_dict[rack] EXCEPT
                              !.battery_under_diagnostic =
                                  RemoveAll(@, StoredIn(ReturnCsv, rack))]
               /\ \A barcode \in Barcodes :
                      battery_obj_dict'[barcode] =
                          IF barcode \in ListedUnits(ReturnCsv)
                          THEN [battery_obj_dict[barcode] EXCEPT
                                   !.current_location =
                                       battery_obj_dict[barcode].storage_location]
                          ELSE battery_obj_dict[barcode]]_vars

(***************************************************************************)
(* Exclusive claims on units and channels: C15, C16                        *)
(***************************************************************************)

\* The channels of all stations, as (station, position) pairs.
AllChannels ==
    UNION {{<<station, i>> : i \in ChannelsOf(station)} : station \in Stations}

\* The occupant of a channel.
Occupant(slot) == diag_chamb_obj_dict[slot[1]].channels.battery[slot[2]]

\* C15: no barcode is the occupant of two channels, whether of two stations
\* or of one.
C15_SingleOccupancy ==
    \A slot1, slot2 \in AllChannels :
        (slot1 # slot2 /\ Occupant(slot1) # "") => Occupant(slot1) # Occupant(slot2)

\* The channels a returned mapping claims.
Claimed(mapping) == {mapping[k][1] : k \in 1..Len(mapping)}

\* C16: when two batches of different units are assigned on the same station
\* one after the other, with no load confirmed in between, the channels of the
\* second mapping are disjoint from those of the first.
C16_DisjointClaims ==
    [][(/\ result.op = "assign_channels"
        /\ ~result.raised
        /\ result'.op = "assign_channels"
        /\ ~result'.raised
        /\ result'.station = result.station
        /\ Range(result'.args) \cap Range(result.args) = {})
        => Claimed(result'.value) \cap Claimed(result.value) = {}]_vars

(***************************************************************************)
(* Racks: assign_battery and auto_assign_batteries on any registry         *)
(***************************************************************************)

\* The keys of battery_obj_dict and temp_chamb_obj_dict in insertion order.
BarcodeOrder == <<"A", "B">>
RackOrder == <<"T1", "T2">>
StationOrder == <<"S1", "S2">>

\* The temperatures a rack is held at or a battery is aged at.
Temperatures == {25, 45, 60}

\* batteries_to_assign_dict: the temperatures of the unassigned batteries in
\* order of first appearance, each with its barcodes in dict order.
batteries_to_assign_dict(bd) ==
    LET unassigned == SelectSeq(BarcodeOrder,
                                LAMBDA barcode :
                                    bd[barcode].storage_location = "Unassigned")
        first(i) == \A j \in 1..(i - 1) :
                        bd[unassigned[j]].temperature # bd[unassigned[i]].temperature
        positions == SelectSeq([i \in 1..Len(unassigned) |-> i], first)
    IN  [g \in 1..Len(positions) |->
            LET temp == bd[unassigned[positions[g]]].temperature
            IN  <<temp, SelectSeq(unassigned,
                                  LAMBDA barcode : bd[barcode].temperature = temp)>>]

\* The last rack, in dict order, held at battery_temp; "" when there is none.
first_matching_chamber_taking_last(tc, battery_temp) ==
    LET match(i) == tc[RackOrder[i]].temperature = battery_temp
    IN  IF \E i \in 1..Len(RackOrder) : match(i)
        THEN RackOrder[CHOOSE i \in 1..Len(RackOrder) :
                           match(i) /\ \A j \in (i + 1)..Len(RackOrder) : ~match(j)]
        ELSE ""

\* The first rack, in dict order, held at battery_temp; "" when there is none.
first_matching_chamber(tc, battery_temp) ==
    LET match(i) == tc[RackOrder[i]].temperature = battery_temp
    IN  IF \E i \in 1..Len(RackOrder) : match(i)
        THEN RackOrder[CHOOSE i \in 1..Len(RackOrder) :
                           match(i) /\ \A j \in 1..(i - 1) : ~match(j)]
        ELSE ""

\* The innermost loop of auto_assign_batteries: assign_battery for each barcode
\* of the group, stopping at the first one that raises.
RECURSIVE assign_group(_, _, _, _)
assign_group(tc, bd, rack, barcodes) ==
    IF barcodes = <<>> THEN [raised |-> FALSE, error |-> "", tc |-> tc, bd |-> bd]
    ELSE LET out == assign_battery(tc, bd, rack, Head(barcodes))
         IN  IF out.raised THEN out
             ELSE assign_group(out.tc, out.bd, rack, Tail(barcodes))

\* The loop of auto_assign_batteries over the temperatures from group g on.  A
\* temperature no rack is held at raises, with the earlier groups assigned.
RECURSIVE auto_assign_loop(_, _, _, _)
auto_assign_loop(groups, g, bd, tc) ==
    IF g > Len(groups) THEN [raised |-> FALSE, error |-> "", tc |-> tc, bd |-> bd]
    ELSE LET rack == first_matching_chamber(tc, groups[g][1])
             out == assign_group(tc, bd, rack, groups[g][2])
         IN  IF rack = ""
             THEN [raised |-> TRUE, error |-> "does not match", tc |-> tc, bd |-> bd]
             ELSE IF out.raised THEN out
             ELSE auto_assign_loop(groups, g + 1, out.bd, out.tc)

auto_assign_batteries(bd, tc) ==
    auto_assign_loop(batteries_to_assign_dict(bd), 1, bd, tc)

\* A newly loaded registry: racks held at any temperatures, batteries aged at
\* any temperatures, nothing assigned.
InitRack ==
    /\ \E temperature \in [Barcodes -> Temperatures] :
           battery_obj_dict =
               [barcode \in Barcodes |->
                   [NewBatteries[barcode] EXCEPT !.temperature = temperature[barcode]]]
    /\ \E temperature \in [Racks -> Temperatures] :
           temp_chamb_obj_dict =
               [name \in Racks |-> TemperatureChamber(name, temperature[name])]
    /\ diag_chamb_obj_dict = NewDiagnosticChambers
    /\ csv_files = [path \in {LoadCsv, ReturnCsv} |-> <<>>]
    /\ clock = 0
    /\ calls = 0
    /\ result = Result("load", "", <<>>, FALSE, "", <<>>, <<>>)

\* auto_assign_batteries(battery_obj_dict, temp_chamb_obj_dict)
AutoAssignBatteries ==
    LET out == auto_assign_batteries(battery_obj_dict, temp_chamb_obj_dict)
    IN  /\ temp_chamb_obj_dict' = out.tc
        /\ battery_obj_dict' = out.bd
        /\ result' = Result("auto_assign_batteries", "", <<>>, out.raised, out.error,
                            <<>>, <<>>)
        /\ UNCHANGED <<diag_chamb_obj_dict, csv_files, clock>>

NextRack ==
    \/ \E rack \in Racks, barcode \in Barcodes :
           AssignBattery(rack, barcode) /\ UNCHANGED calls
    \/ AutoAssignBatteries /\ UNCHANGED calls

SpecRack == InitRack /\ [][NextRack]_vars

(***************************************************************************)
(* Racks: C17, C18                                                         *)
(***************************************************************************)

\* The racks whose resident list holds the barcode.
RacksHolding(barcode) ==
    {rack \in Racks : barcode \in Range(temp_chamb_obj_dict[rack].battery_list)}

\* C17: a barcode is in the resident list of at most one rack, and every
\* resident unit of a rack has the rack's temperature.
C17_RackInvariant ==
    \A barcode \in Barcodes :
        /\ Cardinality(RacksHolding(barcode)) <= 1
        /\ \A rack \in RacksHolding(barcode) :
               battery_obj_dict[barcode].temperature
                   = temp_chamb_obj_dict[rack].temperature

\* C18: assign_battery fails when the unit's temperature differs from the
\* rack's and when the rack's resident list already holds the barcode; the
\* rack's resident list and the unit's storage and current locations are then
\* unchanged.
C18_AssignBatteryRefused ==
    [][result'.op = "assign_battery"
        => LET rack == result'.station
               barcode == result'.args[1]
           IN  (\/ battery_obj_dict[barcode].temperature
                       # temp_chamb_obj_dict[rack].temperature
                \/ barcode \in Range(temp_chamb_obj_dict[rack].battery_list))
               => /\ result'.raised
                  /\ temp_chamb_obj_dict'[rack].battery_list
                         = temp_chamb_obj_dict[rack].battery_list
                  /\ battery_obj_dict'[barcode].storage_location
                         = battery_obj_dict[barcode].storage_location
                  /\ battery_obj_dict'[barcode].current_location
                         = battery_obj_dict[barcode].current_location]_vars

\* C18 witness: a unit of the rack's temperature was refused because the rack
\* already lists it, and the rack lists it once.
C18_Witness ==
    /\ result.op = "assign_battery"
    /\ result.raised
    /\ result.error = "duplicate"
    /\ temp_chamb_obj_dict[result.station].battery_list = <<result.args[1]>>

(***************************************************************************)
(* The scheduler: determine_optimal_schedule                               *)
(*                                                                         *)
(* Row i of a matrix is battery i - 1 of the source and column j is week   *)
(* j - 1.  The solver is a library: its outcome is any status it can       *)
(* report, with any optimal solution when it reports one.                  *)
(***************************************************************************)

\* The objectives determine_optimal_schedule supports.
Objectives == {"Min Average Start", "Min Max Start"}

\* The values of n_batteries x max_weeks binary variables.
BinaryMatrices(n_batteries, max_weeks) ==
    [1..n_batteries -> [1..max_weeks -> {0, 1}]]

\* pulp.lpSum of a list of numbers.
RECURSIVE lpSum(_)
lpSum(terms) == IF terms = <<>> THEN 0 ELSE Head(terms) + lpSum(Tail(terms))

\* range(start_week, max_weeks, interval), as column numbers.
future_weeks(start_week, max_weeks, interval) ==
    {future_week \in start_week..max_weeks :
        (future_week - start_week) % interval = 0}

\* Constraint 1: x[i][future_week] >= s[i][start_week].
periodicity_constraint(x, s, interval_list, max_weeks) ==
    \A i \in 1..Len(interval_list) : \A start_week \in 1..max_weeks :
        \A future_week \in future_weeks(start_week, max_weeks, interval_list[i]) :
            x[i][future_week] >= s[i][start_week]

\* Constraint 2: at most chamber_capacity batteries in any week.
capacity_constraint(x, n_batteries, chamber_capacity, max_weeks) ==
    \A j \in 1..max_weeks :
        lpSum([i \in 1..n_batteries |-> x[i][j]]) <= chamber_capacity

\* Constraint 3: every battery is started.
scheduled_constraint(s, n_batteries) ==
    \A i \in 1..n_batteries : lpSum(s[i]) >= 1

\* least_t_max that bounds t_max by the latest start under either objective.
least_t_max_latest_only(s, n_batteries, max_weeks, objective) ==
    LET products == {(j - 1) * s[i][j] : i \in 1..n_batteries, j \in 1..max_weeks}
    IN  CHOOSE t \in products : \A u \in products : u <= t

\* Constraint 4: the least t_max (an integer >= 0) the objective's constraints
\* allow for the start matrix s.  Week j - 1 of the source is column j.
least_t_max(s, n_batteries, max_weeks, objective) ==
    IF objective = "Min Max Start"
    THEN LET products == {(j - 1) * s[i][j] : i \in 1..n_batteries, j \in 1..max_weeks}
         IN  CHOOSE t \in products : \A u \in products : u <= t
    ELSE IF objective = "Min Average Start"
    THEN lpSum([i \in 1..n_batteries |->
                   lpSum([j \in 1..max_weeks |-> (j - 1) * s[i][j]])])
    ELSE 0

\* The (x, s) that satisfy constraints 1 to 3.
feasible_solutions(interval_list, chamber_capacity, max_weeks) ==
    LET n_batteries == Len(interval_list)
        matrices == BinaryMatrices(n_batteries, max_weeks)
    IN  {sol \in matrices \X matrices :
            /\ capacity_constraint(sol[1], n_batteries, chamber_capacity, max_weeks)
            /\ scheduled_constraint(sol[2], n_batteries)
            /\ periodicity_constraint(sol[1], sol[2], interval_list, max_weeks)}

\* problem.solve(solver): what the solver can report.  With a feasible problem
\* it reports Optimal with a solution of least t_max; with an infeasible one it
\* reports Infeasible.  It can also run out of time (Not Solved) or end in a
\* status pulp does not know (Undefined), and then the variables hold whatever
\* the solver left in them.  t_max is bounded below, so Unbounded does not occur.
solve(interval_list, chamber_capacity, max_weeks, objective) ==
    LET n_batteries == Len(interval_list)
        feasible == feasible_solutions(interval_list, chamber_capacity, max_weeks)
        t_max_of(sol) == least_t_max(sol[2], n_batteries, max_weeks, objective)
        values == {t_max_of(sol) : sol \in feasible}
        best == CHOOSE t \in values : \A u \in values : t <= u
    IN  (IF feasible = {}
         THEN {[status |-> "Infeasible", x |-> <<>>, t_max |-> 0]}
         ELSE {[status |-> "Optimal", x |-> sol[1], t_max |-> best] :
                  sol \in {f \in feasible : t_max_of(f) = best}})
        \cup {[status |-> "Not Solved", x |-> <<>>, t_max |-> 0]}
        \cup {[status |-> "Undefined", x |-> x, t_max |-> 0] :
                 x \in BinaryMatrices(n_batteries, max_weeks)}

\* determine_optimal_schedule on one outcome of the solver: the matrix it
\* returns, or the exception it raises.
determine_optimal_schedule(solved) ==
    IF solved.status = "Optimal"
    THEN [raised |-> FALSE, error |-> "", value |-> <<solved.x>>]
    ELSE IF solved.status = "Not Solved"
    THEN [raised |-> TRUE, error |-> "Solver did not finish", value |-> <<>>]
    ELSE IF solved.status = "Infeasible"
    THEN [raised |-> TRUE, error |-> "Problem is infeasible", value |-> <<>>]
    ELSE IF solved.status = "Unbounded"
    THEN [raised |-> TRUE, error |-> "Problem is unbounded", value |-> <<>>]
    ELSE [raised |-> FALSE, error |-> "", value |-> <<solved.x>>]

\* The interval lists: 1..MaxUnits batteries with intervals of 1..MaxInterval weeks.
IntervalLists == UNION {[1..n -> 1..MaxInterval] : n \in 1..MaxUnits}

\* determine_optimal_schedule(interval_list, chamber_capacity, max_weeks, objective)
DetermineOptimalSchedule(interval_list, chamber_capacity, max_weeks, objective) ==
    /\ calls < MaxRuns
    /\ calls' = calls + 1
    /\ \E solved \in solve(interval_list, chamber_capacity, max_weeks, objective) :
           LET out == determine_optimal_schedule(solved)
           IN  result' = Result("determine_optimal_schedule", "",
                                <<interval_list, chamber_capacity, max_weeks, objective>>,
                                out.raised, out.error,
                                <<solved.status, solved.t_max>>, out.value)
    /\ UNCHANGED <<battery_obj_dict, diag_chamb_obj_dict, temp_chamb_obj_dict,
                   csv_files, clock>>

\* (row == 1).argmax(): the first week (from 0) in which the row is 1, and 0
\* for a row that is never 1.
argmax(row) ==
    IF \E j \in 1..Len(row) : row[j] = 1
    THEN (CHOOSE j \in 1..Len(row) : row[j] = 1 /\ \A k \in 1..(j - 1) : row[k] # 1) - 1
    ELSE 0

\* (schedule_matrix == 1).argmax(axis=1)
start_weeks(matrix) == [i \in 1..Len(matrix) |-> argmax(matrix[i])]

\* The numbers numpy returns are fractions <<numerator, denominator>>.
\* get_latest_start_time: np.max of the start weeks.
get_latest_start_time(matrix) ==
    LET latest == CHOOSE t \in Range(start_weeks(matrix)) :
                      \A u \in Range(start_weeks(matrix)) : u <= t
    IN  <<latest, 1>>

\* get_average_start_time: np.mean of the start weeks.
get_average_start_time(matrix) == <<lpSum(start_weeks(matrix)), Len(matrix)>>

\* get_latest_start_time(schedule_matrix) on the matrix the last call returned.
GetLatestStartTime ==
    /\ result.op = "determine_optimal_schedule"
    /\ ~result.raised
    /\ result' = Result("get_latest_start_time", "", result.value, FALSE, "",
                        result.detail, get_latest_start_time(result.value[1]))
    /\ UNCHANGED <<battery_obj_dict, diag_chamb_obj_dict, temp_chamb_obj_dict,
                   csv_files, clock, calls>>

\* get_average_start_time(schedule_matrix) on the matrix the last call returned.
GetAverageStartTime ==
    /\ result.op = "determine_optimal_schedule"
    /\ ~result.raised
    /\ result' = Result("get_average_start_time", "", result.value, FALSE, "",
                        result.detail, get_average_start_time(result.value[1]))
    /\ UNCHANGED <<battery_obj_dict, diag_chamb_obj_dict, temp_chamb_obj_dict,
                   csv_files, clock, calls>>

\* The name of a column of the schedule table: f"Week_{i}".
Week_(i) == <<"Week_", i>>

\* f"week_{week}", the name batteries_to_test_week looks up.
week_(week) == <<"week_", week>>

\* The chamber capacity get_panda_df_optimal_schedule passes on: the number of
\* channels of all stations less the buffer.
chamber_capacity_of(dc, buffer) ==
    lpSum([k \in 1..Len(StationOrder) |-> Len(dc[StationOrder[k]].channels.channel)])
        - buffer

\* The interval list get_panda_df_optimal_schedule passes on: the diagnostic
\* frequency of every battery in dict order.
interval_list_of(bd) ==
    [k \in 1..Len(BarcodeOrder) |-> bd[BarcodeOrder[k]].diagnostic_frequency]

\* The table get_panda_df_optimal_schedule builds from a matrix: indexed by
\* barcode in dict order, one column Week_0 .. Week_{max_weeks - 1}.
schedule_df_of(bd, matrix, max_weeks) ==
    [index |-> BarcodeOrder,
     columns |-> [j \in 1..max_weeks |-> Week_(j - 1)],
     data |-> [j \in 1..max_weeks |-> [i \in 1..Len(BarcodeOrder) |-> matrix[i][j]]]]

\* get_panda_df_optimal_schedule that also clears active_status of the
\* batteries it schedules.
GetPandaDfOptimalSchedule_deactivating(buffer, max_weeks, objective) ==
    /\ calls < MaxRuns
    /\ calls' = calls + 1
    /\ LET interval_list == interval_list_of(battery_obj_dict)
           chamber_capacity == chamber_capacity_of(diag_chamb_obj_dict, buffer)
       IN  \E solved \in solve(interval_list, chamber_capacity, max_weeks, objective) :
               LET out == determine_optimal_schedule(solved)
               IN  result' =
                       Result("get_panda_df_optimal_schedule", "",
                              <<buffer, max_weeks, objective>>,
                              out.raised, out.error,
                              <<solved.status, solved.t_max>>,
                              IF out.raised THEN <<>>
                              ELSE <<schedule_df_of(battery_obj_dict, out.value[1],
                                                    max_weeks)>>)
    /\ battery_obj_dict' =
           [barcode \in Barcodes |->
               [battery_obj_dict[barcode] EXCEPT !.active_status = FALSE]]
    /\ UNCHANGED <<diag_chamb_obj_dict, temp_chamb_obj_dict, csv_files, clock>>

\* get_panda_df_optimal_schedule(battery_obj_dict, diag_chamb_obj_dict, buffer,
\* max_weeks, objective=objective)
GetPandaDfOptimalSchedule(buffer, max_weeks, objective) ==
    /\ calls < MaxRuns
    /\ calls' = calls + 1
    /\ LET interval_list == interval_list_of(battery_obj_dict)
           chamber_capacity == chamber_capacity_of(diag_chamb_obj_dict, buffer)
       IN  \E solved \in solve(interval_list, chamber_capacity, max_weeks, objective) :
               LET out == determine_optimal_schedule(solved)
               IN  result' =
                       Result("get_panda_df_optimal_schedule", "",
                              <<buffer, max_weeks, objective>>,
                              out.raised, out.error,
                              <<solved.status, solved.t_max>>,
                              IF out.raised THEN <<>>
                              ELSE <<schedule_df_of(battery_obj_dict, out.value[1],
                                                    max_weeks)>>)
    /\ UNCHANGED <<battery_obj_dict, diag_chamb_obj_dict, temp_chamb_obj_dict,
                   csv_files, clock>>

\* batteries_to_test_week: the argument week is overwritten with 0, then the
\* column week_0 is looked up; a KeyError is raised when the table has no
\* column of that name.
batteries_to_test_week(schedule_df, week) ==
    LET week_used == 0
        name == week_(week_used)
    IN  IF name \notin Range(schedule_df.columns)
        THEN [raised |-> TRUE, error |-> "KeyError", detail |-> name, value |-> <<>>]
        ELSE LET week_df == schedule_df.data[list_index(schedule_df.columns, name)]
                 rows == {i \in 1..Len(schedule_df.index) : week_df[i] = 1}
             IN  [raised |-> FALSE, error |-> "", detail |-> <<>>,
                  value |-> <<{schedule_df.index[i] : i \in rows}>>]

\* batteries_to_test_week(schedule_df, week) on the table the last call returned.
BatteriesToTestWeek(week) ==
    /\ result.op = "get_panda_df_optimal_schedule"
    /\ ~result.raised
    /\ week \in 0..(Len(result.value[1].columns) - 1)
    /\ LET out == batteries_to_test_week(result.value[1], week)
       IN  result' = Result("batteries_to_test_week", "", <<result.value[1], week>>,
                            out.raised, out.error, out.detail, out.value)
    /\ UNCHANGED <<battery_obj_dict, diag_chamb_obj_dict, temp_chamb_obj_dict,
                   csv_files, clock, calls>>

\* The scheduler is run on an onboarded registry whose batteries have any
\* diagnostic frequency of 1..MaxInterval.
InitSchedule ==
    /\ \E assigned \in {<<"A">>, <<"A", "B">>},
          frequency \in [Barcodes -> 1..MaxInterval] :
           LET bd == [barcode \in Barcodes |->
                         [NewBatteries[barcode] EXCEPT
                             !.diagnostic_frequency = frequency[barcode]]]
               out == Stored(NewTemperatureChambers, bd, assigned)
           IN  /\ battery_obj_dict = out.bd
               /\ temp_chamb_obj_dict = out.tc
    /\ diag_chamb_obj_dict = NewDiagnosticChambers
    /\ csv_files = [path \in {LoadCsv, ReturnCsv} |-> <<>>]
    /\ clock = 0
    /\ calls = 0
    /\ result = Result("load", "", <<>>, FALSE, "", <<>>, <<>>)

NextSchedule ==
    \/ \E interval_list \in IntervalLists, chamber_capacity \in 0..MaxCapacity,
          max_weeks \in 1..MaxWeeks, objective \in Objectives :
           DetermineOptimalSchedule(interval_list, chamber_capacity, max_weeks, objective)
    \/ GetLatestStartTime
    \/ GetAverageStartTime
    \/ \E buffer \in 0..MaxBuffer, max_weeks \in 1..MaxWeeks, objective \in Objectives :
           GetPandaDfOptimalSchedule(buffer, max_weeks, objective)
    \/ \E week \in 0..(MaxWeeks - 1) : BatteriesToTestWeek(week)

SpecSchedule == InitSchedule /\ [][NextSchedule]_vars

(***************************************************************************)
(* Returned schedules: C19, C20                                            *)
(***************************************************************************)

\* The last call was a determine_optimal_schedule that returned a matrix.
Returned ==
    /\ result.op = "determine_optimal_schedule"
    /\ ~result.raised

\* The matrix the last call returned, and the inputs it was called with.
schedule_matrix == result.value[1]
GivenIntervals == result.args[1]
GivenCapacity == result.args[2]
GivenWeeks == result.args[3]

\* The number of units the matrix marks tested in column j.
TestedIn(j) ==
    Cardinality({i \in 1..Len(GivenIntervals) : schedule_matrix[i][j] = 1})

\* C19: in every returned matrix the number of units tested in any week of the
\* horizon is at most the weekly capacity.
C19_Capacity ==
    Returned => \A j \in 1..GivenWeeks : TestedIn(j) <= GivenCapacity

\* C20: in every returned matrix every unit has a start week of the horizon
\* from which it is tested every interval weeks up to the horizon's end.
C20_Periodic ==
    Returned =>
        \A i \in 1..Len(GivenIntervals) : \E start_week \in 1..GivenWeeks :
            \A w \in future_weeks(start_week, GivenWeeks, GivenIntervals[i]) :
                schedule_matrix[i][w] = 1

(***************************************************************************)
(* Optimal schedules: C21, C22                                             *)
(***************************************************************************)

\* The last call returned the matrix of a solution the solver reported optimal.
ReturnedOptimal ==
    /\ Returned
    /\ result.detail[1] = "Optimal"

\* The columns in which row i of the returned matrix is tested.
TestedWeeks(i) == {j \in 1..GivenWeeks : schedule_matrix[i][j] = 1}

\* C21: in every matrix returned for an optimal solution, any two weeks in
\* which a unit is tested lie a multiple of the unit's interval apart.
C21_OnGrid ==
    ReturnedOptimal =>
        \A i \in 1..Len(GivenIntervals) : \A w1, w2 \in TestedWeeks(i) :
            w1 < w2 => (w2 - w1) % GivenIntervals[i] = 0

\* The week (of the source, from 0) in which a row is first tested.
FirstTested(row) ==
    (CHOOSE j \in 1..Len(row) : row[j] = 1 /\ \A k \in 1..(j - 1) : row[k] # 1) - 1

\* A schedule in the sense of the contract: within capacity, every unit is
\* tested at least once, and from its first test on it is tested every
\* interval weeks up to the end of the horizon.
IsSchedule(x, interval_list, chamber_capacity, max_weeks) ==
    /\ \A j \in 1..max_weeks :
           Cardinality({i \in 1..Len(interval_list) : x[i][j] = 1}) <= chamber_capacity
    /\ \A i \in 1..Len(interval_list) :
           /\ \E j \in 1..max_weeks : x[i][j] = 1
           /\ \A w \in future_weeks(FirstTested(x[i]) + 1, max_weeks, interval_list[i]) :
                  x[i][w] = 1

\* The start weeks of the units of a schedule.
StartWeeks(x) == [i \in 1..Len(x) |-> FirstTested(x[i])]

\* The largest element of a non-empty set of numbers.
Largest(numbers) == CHOOSE t \in numbers : \A u \in numbers : u <= t

\* The objective of a schedule: the sum of its start weeks under 'Min Average
\* Start', the largest of them under 'Min Max Start'.
ObjectiveOf(x, objective) ==
    IF objective = "Min Max Start" THEN Largest(Range(StartWeeks(x)))
    ELSE lpSum(StartWeeks(x))

\* The schedules for the inputs of the last call.
GivenSchedules ==
    {x \in BinaryMatrices(Len(GivenIntervals), GivenWeeks) :
        IsSchedule(x, GivenIntervals, GivenCapacity, GivenWeeks)}

Finished ==
    /\ result.op = "determine_optimal_schedule"
    /\ result.detail[1] # "Not Solved"

\* The last call failed with the infeasible error.
FailedInfeasible ==
    /\ result.raised
    /\ result.error = "Problem is infeasible"

\* C23: with capacity 0 and at least one unit, a run of the scheduler that
\* finishes fails with the infeasible error and returns no matrix.
C23_ZeroCapacity ==
    (Finished /\ GivenCapacity = 0) => FailedInfeasible

\* The units of the last call that are to be tested every week.
WeeklyUnits == {i \in 1..Len(GivenIntervals) : GivenIntervals[i] = 1}

\* C24: when more units have interval 1 than the weekly capacity, a run of
\* the scheduler that finishes fails with the infeasible error, whatever the
\* horizon and the objective.
C24_TooManyWeekly ==
    (Finished /\ Cardinality(WeeklyUnits) > GivenCapacity) => FailedInfeasible

\* C25: a run whose solver ends with a status other than optimal, infeasible
\* or unbounded raises, or returns more than the bare matrix.
C25_NoBareMatrix ==
    (/\ result.op = "determine_optimal_schedule"
     /\ result.detail[1] \notin {"Optimal", "Infeasible", "Unbounded"})
        => (result.raised \/ Len(result.value) > 1)

(***************************************************************************)
(* Derived start weeks and the weekly projection: C26, C27                 *)
(***************************************************************************)

\* C26: for a matrix returned as optimal, the start week that
\* get_latest_start_time and get_average_start_time derive for every unit is
\* a week from which its row is tested every interval weeks, and under 'Min
\* Max Start' the latest start get_latest_start_time returns is t_max.
C26_DerivedStart ==
    [][(/\ ReturnedOptimal
        /\ result'.op \in {"get_latest_start_time", "get_average_start_time"})
           => /\ \A i \in 1..Len(GivenIntervals) :
                     \A w \in future_weeks(start_weeks(schedule_matrix)[i] + 1,
                                           GivenWeeks, GivenIntervals[i]) :
                         schedule_matrix[i][w] = 1
              /\ (/\ result.args[4] = "Min Max Start"
                  /\ result'.op = "get_latest_start_time")
                     => result'.value = <<result.detail[2], 1>>]_vars

\* C27: batteries_to_test_week(schedule_df, w) on a table of
\* get_panda_df_optimal_schedule returns exactly the barcodes whose entry in
\* column w is 1.
C27_WeekProjection ==
    result.op = "batteries_to_test_week" =>
        LET schedule_df == result.args[1]
            w == result.args[2]
        IN  /\ ~result.raised
            /\ result.value[1] =
                   {schedule_df.index[i] : i \in
                       {k \in 1..Len(schedule_df.index) : schedule_df.data[w + 1][k] = 1}}

(***************************************************************************)
(* The scheduler and the registry: C28                                     *)
(***************************************************************************)

\* C28: a run of determine_optimal_schedule or get_panda_df_optimal_schedule,
\* whatever its outcome, leaves every battery, station and rack as it was.
C28_ReadOnly ==
    [][result'.op \in {"determine_optimal_schedule", "get_panda_df_optimal_schedule"}
           => UNCHANGED <<battery_obj_dict, diag_chamb_obj_dict, temp_chamb_obj_dict>>]_vars

\* C28 witness: get_panda_df_optimal_schedule has run on the registry and
\* returned a table.
C28_Witness ==
    /\ result.op = "get_panda_df_optimal_schedule"
    /\ ~result.raised
    /\ result.detail[1] = "Optimal"

(***************************************************************************)
(* Repeated assignment: C29                                                *)
(***************************************************************************)

\* Every channel of the station is unoccupied.
AllUnoccupied(station) ==
    \A i \in ChannelsOf(station) :
        diag_chamb_obj_dict[station].channels.state[i] = "unoccupied"

strftime(today_date) == <<"01/01/2024", "01/02/2024", "01/03/2024">>[today_date + 1]

\* The next_diag a csv row or a caller can give: the default, or a date.
NextDiags == {"today", "01/29/2024"}

\* Battery(**kwargs) on day today_date. str, int, bool and list return the
\* values of a saved battery as they are; next_diag is replaced by the
\* day's date unless it is "today"; a form factor that is not valid raises.
Battery_from_kwargs(kwargs, today_date) ==
    [raised |-> kwargs.form_factor \notin valid_form_factors,
     value |-> [kwargs EXCEPT
                   !.next_diag = IF kwargs.next_diag # "today"
                                 THEN strftime(today_date)
                                 ELSE kwargs.next_diag]]

\* json.load(json.dump(obj)): every attribute of a battery, a station or a
\* rack is a str, an int, a bool, None, a list of these or a dict of lists
\* with str keys, which JSON writes and reads back as they are.
json_round_trip(obj) == obj

\* save_batteries_to_json: the __dict__ of every battery under its key.
save_batteries_to_json(battery_dict) ==
    json_round_trip([key \in DOMAIN battery_dict |-> battery_dict[key]])

\* save_diag_chambers_to_json: the __dict__ of every station under its key.
save_diag_chambers_to_json(diag_chamber_dict) ==
    json_round_trip([key \in DOMAIN diag_chamber_dict |-> diag_chamber_dict[key]])

\* save_temp_chambers_to_json: the __dict__ of every rack under its key.
save_temp_chambers_to_json(temp_chamber_dict) ==
    json_round_trip([key \in DOMAIN temp_chamber_dict |-> temp_chamber_dict[key]])

\* load_existing_batteries on day today_date.
load_existing_batteries(json_battery_dict, today_date) ==
    [key \in DOMAIN json_battery_dict |->
        Battery_from_kwargs(json_battery_dict[key], today_date).value]

\* load_existing_diag_chambers: DiagnosticChamber(**dict) for every key.
load_existing_diag_chambers(json_diag_chamb_dict) ==
    [key \in DOMAIN json_diag_chamb_dict |->
        LET kwargs == json_diag_chamb_dict[key]
        IN  [name |-> kwargs.name, channels |-> kwargs.channels,
             in_operation |-> kwargs.in_operation,
             diagnostic_start_time |-> kwargs.diagnostic_start_time]]

\* load_existing_temp_chambers: TemperatureChamber(**dict) for every key.
load_existing_temp_chambers(json_temp_chamb_dict) ==
    [key \in DOMAIN json_temp_chamb_dict |->
        LET kwargs == json_temp_chamb_dict[key]
        IN  [name |-> kwargs.name, temperature |-> kwargs.temperature,
             battery_list |-> kwargs.battery_list,
             battery_under_diagnostic |-> kwargs.battery_under_diagnostic]]

\* The three registries are saved; the files are the value of the call.
SaveToJson ==
    /\ result' = Result("save_to_json", "", <<>>, FALSE, "", <<>>,
                        <<save_batteries_to_json(battery_obj_dict),
                          save_diag_chambers_to_json(diag_chamb_obj_dict),
                          save_temp_chambers_to_json(temp_chamb_obj_dict)>>)
    /\ UNCHANGED <<battery_obj_dict, diag_chamb_obj_dict, temp_chamb_obj_dict,
                   csv_files, clock, calls>>

\* The three registries are loaded from the files just saved, on day today_date.
LoadExisting(today_date) ==
    /\ result.op = "save_to_json"
    /\ today_date >= clock
    /\ clock' = today_date
    /\ battery_obj_dict' = load_existing_batteries(result.value[1], today_date)
    /\ diag_chamb_obj_dict' = load_existing_diag_chambers(result.value[2])
    /\ temp_chamb_obj_dict' = load_existing_temp_chambers(result.value[3])
    /\ result' = Result("load_existing", "", <<today_date>>, FALSE, "", <<>>, <<>>)
    /\ UNCHANGED <<csv_files, calls>>

\* The registry after load_new_batteries on day 0 of a csv whose rows give
\* any next_diag, with A stored in T1 and B stored in T1 or unassigned.
InitSave ==
    /\ \E assigned \in {<<"A">>, <<"A", "B">>}, next_diag \in [Barcodes -> NextDiags] :
           LET bd == [barcode \in Barcodes |->
                         Battery_from_kwargs(
                             [NewBatteries[barcode] EXCEPT !.next_diag = next_diag[barcode]],
                             0).value]
               out == Stored(NewTemperatureChambers, bd, assigned)
           IN  /\ battery_obj_dict = out.bd
               /\ temp_chamb_obj_dict = out.tc
    /\ diag_chamb_obj_dict = NewDiagnosticChambers
    /\ csv_files = [path \in {LoadCsv, ReturnCsv} |-> <<>>]
    /\ clock = 0
    /\ calls = 0
    /\ result = Result("load", "", <<>>, FALSE, "", <<>>, <<>>)

\* The lifecycle of station S2, with the registry saved at any point and
\* loaded again on the same or a later day.
NextSave ==
    \/ \E batch \in Batches : Call /\ AssignChannels("S2", batch)
    \/ Call /\ CreateChannelCheckList("S2")
    \/ \E scans \in Scans(LoadCsv) : Call /\ VerifyAndLoad("S2", scans)
    \/ \E today_date \in 0..MaxClock : Call /\ StartChannelTesting("S2", today_date)
    \/ Call /\ DiagnosticFinished("S2")
    \/ \E sort_by \in SortBys : Call /\ GenerateReturnCheckList("S2", sort_by)
    \/ \E scans \in Scans(ReturnCsv) : Call /\ VerifyAndReturn("S2", scans)
    \/ SaveToJson
    \/ \E today_date \in 0..MaxClock : LoadExisting(today_date)

SpecSave == InitSave /\ [][NextSave]_vars

(***************************************************************************)
(* Round trip: C30                                                         *)
(***************************************************************************)

\* C30: loading the registry that was just saved, on the same or a later
\* day, gives every battery, station and rack the fields it had.
C30_RoundTrip ==
    [][result'.op = "load_existing"
           => /\ battery_obj_dict' = battery_obj_dict
              /\ diag_chamb_obj_dict' = diag_chamb_obj_dict
              /\ temp_chamb_obj_dict' = temp_chamb_obj_dict]_vars

(***************************************************************************)
(* First fit is incomplete: C31                                            *)
(***************************************************************************)

\* Every battery of batch can be given a channel of its own that can take it.
HasCompleteAssignment(channels, batch) ==
    \E placing \in [1..Len(batch) -> 1..Len(channels.channel)] :
        /\ \A j, k \in 1..Len(batch) : j # k => placing[j] # placing[k]
        /\ \A k \in 1..Len(batch) :
               CanTake(channels, placing[k], battery_obj_dict[batch[k]].form_factor)

\* Station S1 is unoccupied with channels [(C1, any), (C2, pouch)], A is a
\* pouch cell and B an 18650 cell.
WildcardFirst ==
    /\ diag_chamb_obj_dict["S1"].channels.form_factor = <<"any", "pouch">>
    /\ diag_chamb_obj_dict["S1"].channels.state = <<"unoccupied", "unoccupied">>
    /\ battery_obj_dict["A"].form_factor = "pouch"
    /\ battery_obj_dict["B"].form_factor = "18650"

\* C31: on the unoccupied station [(C1, any), (C2, pouch)] the units
\* [(A, pouch), (B, 18650)] have a complete compatible assignment, and
\* assign_channels fails for B because A has taken the wildcard channel.
C31_FirstFitIncomplete ==
    (WildcardFirst /\ AssignedAB)
        => /\ HasCompleteAssignment(ResultChannels, result.args)
           /\ result.raised
           /\ result.value = <<>>
           /\ result.detail = <<"B", "18650">>

\* C31 witness: assign_channels has failed on a batch that has a complete
\* compatible assignment, in the scenario of the claim.
C31_Witness ==
    /\ WildcardFirst
    /\ AssignedAB
    /\ result.raised
    /\ HasCompleteAssignment(ResultChannels, result.args)

(***************************************************************************)
(* Automatic storage: C32                                                  *)
(***************************************************************************)

\* The number of times the barcode is in the list.
Occurrences(lst, barcode) == Cardinality({i \in 1..Len(lst) : lst[i] = barcode})

\* The racks held at the temperature of the unit.
RacksAt(barcode) ==
    {i \in 1..Len(RackOrder) :
        temp_chamb_obj_dict[RackOrder[i]].temperature
            = battery_obj_dict[barcode].temperature}

\* The units without a storage location.
UnassignedUnits ==
    {barcode \in Barcodes : battery_obj_dict[barcode].storage_location = "Unassigned"}

Skipped(self, bd) ==
    [raised |-> FALSE, error |-> "", detail |-> <<>>, self |-> self, bd |-> bd]

\* The return checklist of a station with every row scanned correctly.
ScannedCorrectly(rows) ==
    [i \in 1..Len(rows) |-> [rows[i] EXCEPT !.Scanned_Barcode = rows[i].Barcode]]

\* The operations that take the occupied channels of a station back to
\* unoccupied, run from the present state: a batch in operation is finished,
\* the loaded channels are started and finished, and the completed channels
\* are listed and returned with correct scans.
Completion(station) ==
    LET self == diag_chamb_obj_dict[station]
        first == IF self.in_operation
                 THEN diagnostic_finished(self, battery_obj_dict)
                 ELSE Skipped(self, battery_obj_dict)
        started == IF \E i \in ChannelsOf(station) : first.self.channels.state[i] = "loaded"
                   THEN start_channel_testing(first.self, first.bd, clock)
                   ELSE Skipped(first.self, first.bd)
        finished == IF started.self.in_operation
                    THEN diagnostic_finished(started.self, started.bd)
                    ELSE Skipped(started.self, started.bd)
        listed == generate_return_check_list(finished.self, finished.bd,
                                             <<"Storage_Location", "Channel">>)
        returned == verify_and_return(finished.self, ScannedCorrectly(listed.rows),
                                      finished.bd, temp_chamb_obj_dict)
    IN  [raised |-> \/ first.raised
                    \/ started.raised
                    \/ finished.raised
                    \/ listed.raised
                    \/ returned.raised,
         self |-> returned.self, bd |-> returned.bd, tc |-> returned.tc]

\* The units on the channels of a station that are not unoccupied.
OccupyingUnits(station) ==
    {diag_chamb_obj_dict[station].channels.battery[i] :
        i \in {j \in ChannelsOf(station) :
                  diag_chamb_obj_dict[station].channels.state[j] # "unoccupied"}}

\* C33: from every reachable state in which a station has a loaded, running
\* or completed channel, start_channel_testing, diagnostic_finished and a
\* correctly scanned verify_and_return go through in that order, and after
\* them every channel of the station is unoccupied with no occupant and each
\* unit that was on one is not under diagnostic, is located in its storage
\* rack and is not in that rack's on-loan list.
C33_NeverStuck ==
    \A station \in Stations :
        OccupyingUnits(station) # {} =>
            LET done == Completion(station)
            IN  /\ ~done.raised
                /\ \A i \in ChannelsOf(station) :
                       /\ done.self.channels.state[i] = "unoccupied"
                       /\ done.self.channels.battery[i] = ""
                /\ \A barcode \in OccupyingUnits(station) :
                       /\ barcode \in Barcodes
                       /\ ~done.bd[barcode].under_diag
                       /\ done.bd[barcode].current_location
                              = done.bd[barcode].storage_location
                       /\ done.bd[barcode].storage_location \in Racks
                       /\ barcode \notin
                              Range(done.tc[done.bd[barcode].storage_location]
                                        .battery_under_diagnostic)

(***************************************************************************)
(* Running channels and the in_operation flag: C34                         *)
(***************************************************************************)

\* The running channels of a station.
RunningChannels(station) ==
    {i \in ChannelsOf(station) :
        diag_chamb_obj_dict[station].channels.state[i] = "running"}

\* C34: whenever a channel of a station is running, the station's
\* in_operation flag is true.
C34_RunningInOperation ==
    \A station \in Stations :
        RunningChannels(station) # {} => diag_chamb_obj_dict[station].in_operation

\* C34 witness: a start has put a channel of S1 in the running state.
C34_Witness ==
    /\ result.op = "start_channel_testing"
    /\ ~result.raised
    /\ RunningChannels("S1") # {}
    /\ diag_chamb_obj_dict["S1"].in_operation

(***************************************************************************)
(* Histories and the diagnostic counter: C35                               *)
(***************************************************************************)

\* The number of diagnostics a unit has started: those it has finished and
\* the one it is under.
StartedDiagnostics(barcode) ==
    battery_obj_dict[barcode].diagnostic_number
        + (IF battery_obj_dict[barcode].under_diag THEN 1 ELSE 0)

\* C35: for every unit, the data-file history, the procedure-file history
\* and the start-timestamp history each have as many entries as the unit's
\* diagnostic counter, plus one while the unit is under diagnostic.
C35_HistoryLengths ==
    \A barcode \in Barcodes :
        /\ Len(battery_obj_dict[barcode].data_file_history)
               = StartedDiagnostics(barcode)
        /\ Len(battery_obj_dict[barcode].testing_procedure_history)
               = StartedDiagnostics(barcode)
        /\ Len(battery_obj_dict[barcode].testing_start_dates)
               = StartedDiagnostics(barcode)

(***************************************************************************)
(* On-loan lists: C36                                                      *)
(***************************************************************************)

\* The unit is the occupant of a channel that is loaded, running or completed.
OnChannel(barcode) ==
    \E slot \in AllChannels :
        /\ Occupant(slot) = barcode
        /\ diag_chamb_obj_dict[slot[1]].channels.state[slot[2]] # "unoccupied"

\* C36: the on-loan list of every rack holds no barcode twice, holds only
\* residents of the rack, and holds a barcode exactly when the unit occupies
\* a loaded, running or completed channel of some station.
C36_OnLoan ==
    \A rack \in Racks :
        LET on_loan == temp_chamb_obj_dict[rack].battery_under_diagnostic
        IN  /\ \A barcode \in Range(on_loan) : Occurrences(on_loan, barcode) = 1
            /\ Range(on_loan) \subseteq Range(temp_chamb_obj_dict[rack].battery_list)
            /\ \A barcode \in Range(temp_chamb_obj_dict[rack].battery_list) :
                   barcode \in Range(on_loan) <=> OnChannel(barcode)

====
